---- MODULE Spec2Model ----
(***************************************************************************)
(* Model of table.py: class Table, a ttk.Treeview wrapper that is sortable *)
(* by column (sort_cols) and highlights the row under the pointer          *)
(* (highlight_row).                                                        *)
(*                                                                         *)
(* Cell text is modelled as a sequence of character codes, so that Python  *)
(* string comparison, the slice s[0:1], the substring test                 *)
(* `in "0123456789"` and float() are computed and not assumed.             *)
(* Item ids: Tk names the inserted rows I001, I002, ...; they are modelled *)
(* by 1, 2, ... (same order), the root item '' by 0 and Python's None by   *)
(* -1.                                                                     *)
(***************************************************************************)
EXTENDS Integers, Sequences, FiniteSets, TLC

(* ------------------------------ bounds -------------------------------- *)

\* largest number of rows in the data handed to the constructor
MaxRows == 3

\* largest number of completed sort_cols calls that are counted
MaxSorts == 3

(* ----------------------- cell text and columns ------------------------ *)

\* self.cols: the column identifiers, 1 = "Name", 2 = "Score"
Cols == {1, 2}

\* the header texts "Name" and "Score" of self.cols
sName == <<78, 97, 109, 101>>
sScore == <<83, 99, 111, 114, 101>>
Headers == <<sName, sScore>>

\* "Bob"
sBob == <<66, 111, 98>>
\* "Amy"
sAmy == <<65, 109, 121>>
\* "banana"
sBanana == <<98, 97, 110, 97, 110, 97>>
\* "apple"
sApple == <<97, 112, 112, 108, 101>>
\* "cherry"
sCherry == <<99, 104, 101, 114, 114, 121>>
\* "7up"
s7up == <<55, 117, 112>>
\* ""
sEmpty == <<>>
\* "5"
s5 == <<53>>
\* "12"
s12 == <<49, 50>>
\* "10"
s10 == <<49, 48>>
\* "2"
s2 == <<50>>
\* "1"
s1 == <<49>>
\* "-5"
sMinus5 == <<45, 53>>
\* "1.0"
s1dot0 == <<49, 46, 48>>

\* the rows a table's data is drawn from: [Name, Score]
RowPool ==
  { <<sBob, s5>>, <<sAmy, s12>>, <<sBanana, s10>>, <<sApple, s2>>,
    <<sCherry, s1>>, <<s7up, sMinus5>>, <<sEmpty, s1dot0>> }

\* data: a list of at most MaxRows distinct rows of the pool
Tables ==
  UNION { { t \in [1..n -> RowPool] : \A i, j \in 1..n : t[i] = t[j] => i = j }
          : n \in 0..MaxRows }

(* --------------------------- Python helpers --------------------------- *)

Reverse(s) == [i \in 1..Len(s) |-> s[Len(s) + 1 - i]]

\* Python str < str: comparison by code point, a proper prefix is smaller
RECURSIVE StrLess(_, _)
StrLess(a, b) ==
  IF b = <<>> THEN FALSE
  ELSE IF a = <<>> THEN TRUE
  ELSE IF a[1] # b[1] THEN a[1] < b[1]
  ELSE StrLess(Tail(a), Tail(b))

\* s[0:1]: the first character, or "" when s is empty
FirstSlice(s) == IF s = <<>> THEN <<>> ELSE <<s[1]>>

IsDigit(ch) == ch \in 48..57

\* sub in "0123456789" for a sub of length <= 1 (substring test: "" is in
\* every string)
InDigits(sub) == sub = <<>> \/ (Len(sub) = 1 /\ IsDigit(sub[1]))

\* a check that never takes the numeric branch
LooksNumericNever(s) == FALSE

\* data[0][0][0:1] in "0123456789"
LooksNumeric(s) == InDigits(FirstSlice(s))

RECURSIVE DigitsVal(_)
DigitsVal(ds) ==
  IF ds = <<>> THEN 0
  ELSE 10 * DigitsVal(SubSeq(ds, 1, Len(ds) - 1)) + (ds[Len(ds)] - 48)

AllDigits(ds) == \A i \in 1..Len(ds) : IsDigit(ds[i])

\* float(s) on text made of a sign, digits and a decimal point followed by at
\* most one digit (the cell texts of RowPool); ok = FALSE stands for
\* ValueError. val is the number in tenths, which keeps it exact.
ParseFloat(s) ==
  LET signed == s # <<>> /\ s[1] \in {43, 45}
      body   == IF signed THEN Tail(s) ELSE s
      dots   == { i \in 1..Len(body) : body[i] = 46 }
      dot    == IF dots = {} THEN Len(body) + 1 ELSE CHOOSE i \in dots : TRUE
      ip     == SubSeq(body, 1, dot - 1)
      fp     == SubSeq(body, dot + 1, Len(body))
      ok     == /\ Cardinality(dots) <= 1
                /\ AllDigits(ip) /\ AllDigits(fp)
                /\ Len(ip) + Len(fp) > 0
                /\ Len(fp) <= 1
      mag    == DigitsVal(ip) * 10 + DigitsVal(fp)
  IN  IF ok THEN [ok |-> TRUE, val |-> IF signed /\ s[1] = 45 THEN 0 - mag ELSE mag]
      ELSE [ok |-> FALSE, val |-> 0]

\* the pixel width of one character in the body font: capitals are wide,
\* signs and the point narrow
CharWidth(ch) ==
  IF ch \in 65..90 THEN 9
  ELSE IF ch \in {43, 45, 46} THEN 4
  ELSE 7

\* Font().measure(text): the rendered width of the text in pixels
RECURSIVE Measure(_)
Measure(s) == IF s = <<>> THEN 0 ELSE CharWidth(s[1]) + Measure(Tail(s))

(* ------------------------------- tags --------------------------------- *)

OddRow == <<"oddrow">>
EvenRow == <<"evenrow">>
Hovered == <<"hovered_row">>
\* an item without tags: tree.item(iid)['tags'] gives ''
NoTags == <<>>
\* Python None, the initial last_focus['tags']
NoneTags == <<"None">>

NoneIid == -1
RootIid == 0

\* a loop that gives every row the same shade
ShadeOfSame(odd) == OddRow

\* the tag the insertion and sort loops give when their flag `odd` is odd
ShadeOf(odd) == IF odd THEN OddRow ELSE EvenRow

(* ------------------------------- state -------------------------------- *)

VARIABLES
  data,        \* self.data, the rows handed to the constructor
  values,      \* the Treeview's items: iid -> the item's values
  children,    \* tree.get_children(''): the iids in display order
  tags,        \* iid -> the item's tags (the root item 0 included)
  descending,  \* self.descending
  last_focus,  \* self.last_focus: [iid, tags]
  outcome,     \* how the last handler ended
  called_col,  \* the argument col of the last sort_cols call, 0 if none
  sort_col,    \* the column of the last completed sort_cols call, 0 if none
  sorts,       \* the number of completed sort_cols calls
  widths       \* tree.column(c, 'width') for every column c

vars == <<data, values, children, tags, descending, last_focus, outcome,
          called_col, sort_col, sorts, widths>>

(* ---------------------------- insert_data ----------------------------- *)

\* the loop `for c in self.cols`: every column starts as wide as its header
HeaderWidths == [c \in Cols |-> Measure(Headers[c])]

\* a widening step that takes the cell's width whatever the column's width
WidenAlways(width, iwidth) == iwidth

\* if column width < iwidth: column width = iwidth
Widen(width, iwidth) == IF width < iwidth THEN iwidth ELSE width

\* the loop `for idx, val in enumerate(item)`, from the 1-based column c on
RECURSIVE WidenCols(_, _, _)
WidenCols(item, c, w) ==
  IF c > Len(item) THEN w
  ELSE WidenCols(item, c + 1, [w EXCEPT ![c] = Widen(w[c], Measure(item[c]))])

\* the loop `for item in self.data` of insert_data, from row i on
RECURSIVE InsertRows(_, _, _, _)
InsertRows(d, i, odd, tree) ==
  IF i > Len(d) THEN tree
  ELSE InsertRows(d, i + 1, ~odd,
         [children |-> Append(tree.children, i),
          values   |-> tree.values @@ (i :> d[i]),
          tags     |-> tree.tags @@ (i :> ShadeOf(odd)),
          widths   |-> WidenCols(d[i], 1, tree.widths)])

\* an insertion that walks the data backwards
InsertDataReversed(d) ==
  InsertRows(Reverse(d), 1, TRUE,
             [children |-> <<>>, values |-> <<>>, tags |-> (RootIid :> NoTags),
              widths |-> HeaderWidths])

\* the tree after insert_data: an empty Treeview has only its root item
InsertData(d) ==
  InsertRows(d, 1, TRUE,
             [children |-> <<>>, values |-> <<>>, tags |-> (RootIid :> NoTags),
              widths |-> HeaderWidths])

Init ==
  /\ data \in Tables
  /\ LET tree == InsertData(data)
     IN  /\ values = tree.values
         /\ children = tree.children
         /\ tags = tree.tags
         /\ widths = tree.widths
  /\ descending = TRUE
  /\ last_focus = [iid |-> NoneIid, tags |-> NoneTags]
  /\ outcome = "constructed"
  /\ called_col = 0
  /\ sort_col = 0
  /\ sorts = 0

(* ----------------------------- sort_cols ------------------------------ *)

\* [(self.tree.set(child, col), child) for child in get_children('')]
ReadColumn(ch, vals, col) ==
  [i \in 1..Len(ch) |-> <<vals[ch[i]][col], ch[i]>>]

\* [(float(x[0]), x[1]) for x in data]
ToFloats(d) == [i \in 1..Len(d) |-> <<ParseFloat(d[i][1]).val, d[i][2]>>]

\* a conversion that never raises
AllParseAlways(d) == TRUE

\* no float(x[0]) raises ValueError
AllParse(d) == \A i \in 1..Len(d) : ParseFloat(d[i][1]).ok

\* Python's tuple comparison (key, iid) < (key, iid); keys are numbers
\* after ToFloats and text otherwise
TupleLess(a, b, numeric) ==
  IF a[1] = b[1] THEN a[2] < b[2]
  ELSE IF numeric THEN a[1] < b[1] ELSE StrLess(a[1], b[1])

\* stable insertion of x into the sorted list s: after every element that is
\* not greater than x
RECURSIVE InsertSorted(_, _, _)
InsertSorted(s, x, numeric) ==
  IF s = <<>> THEN <<x>>
  ELSE IF TupleLess(x, s[1], numeric) THEN <<x>> \o s
  ELSE <<s[1]>> \o InsertSorted(Tail(s), x, numeric)

RECURSIVE StableSort(_, _)
StableSort(s, numeric) ==
  IF s = <<>> THEN <<>>
  ELSE InsertSorted(StableSort(SubSeq(s, 1, Len(s) - 1), numeric),
                    s[Len(s)], numeric)

\* list.sort(reverse=r): a stable sort; with reverse the list is reversed,
\* sorted and reversed again
ListSort(s, reverse, numeric) ==
  IF reverse THEN Reverse(StableSort(Reverse(s), numeric))
  ELSE StableSort(s, numeric)

\* a move that inserts the item without detaching it first
MoveCopy(ch, item, index) ==
  LET at == IF index > Len(ch) THEN Len(ch) ELSE index
  IN  SubSeq(ch, 1, at) \o <<item>> \o SubSeq(ch, at + 1, Len(ch))

\* tree.move(item, '', index): detach the item and put it at the 0-based
\* index among the root's children (at the end when index is past it)
Move(ch, item, index) ==
  LET rest == SelectSeq(ch, LAMBDA x : x # item)
      at   == IF index > Len(rest) THEN Len(rest) ELSE index
  IN  SubSeq(rest, 1, at) \o <<item>> \o SubSeq(rest, at + 1, Len(rest))

\* the loop `for i, item in enumerate(data)` of sort_cols, from the
\* 0-based index i on
RECURSIVE SortLoop(_, _, _, _)
SortLoop(d, i, odd, tree) ==
  IF i >= Len(d) THEN tree
  ELSE SortLoop(d, i + 1, ~odd,
         [children |-> Move(tree.children, d[i + 1][2], i),
          tags     |-> [tree.tags EXCEPT ![d[i + 1][2]] = ShadeOf(odd)]])

\* a direction flag that is never flipped
ToggleNever(flag) == flag

\* not self.descending
Toggle(flag) == ~flag

\* the body of sort_cols once data is read and found non-empty
SortRows(col, d) ==
  LET numeric == LooksNumeric(d[1][1])
  IN  IF numeric /\ ~AllParse(d)
      THEN \* float() raises ValueError
           /\ outcome' = "ValueError"
           /\ UNCHANGED <<children, tags, descending, sort_col, sorts>>
      ELSE LET keyed  == IF numeric THEN ToFloats(d) ELSE d
               sorted == ListSort(keyed, descending, numeric)
               tree   == SortLoop(sorted, 0, TRUE,
                                  [children |-> children, tags |-> tags])
           IN  /\ sorts < MaxSorts
               /\ children' = tree.children
               /\ tags' = tree.tags
               /\ descending' = Toggle(descending)
               /\ outcome' = "sorted"
               /\ sort_col' = col
               /\ sorts' = sorts + 1

sort_cols(col) ==
  LET d == ReadColumn(children, values, col)
  IN  /\ called_col' = col
      /\ IF d = <<>>
         THEN \* data[0] raises IndexError
              /\ outcome' = "IndexError"
              /\ UNCHANGED <<children, tags, descending, sort_col, sorts>>
         ELSE SortRows(col, d)
      /\ UNCHANGED <<data, values, last_focus, widths>>

(* --------------------------- highlight_row ---------------------------- *)

\* tree.identify_row(event.y): the row drawn at the pointer, '' when the
\* pointer is over no row; pos is the 0-based display line under event.y
IdentifyRow(ch, pos) == IF pos < Len(ch) THEN ch[pos + 1] ELSE RootIid

\* Python truth value of an iid: None and '' are false
Truthy(iid) == iid # NoneIid /\ iid # RootIid

\* a handler that leaves the row it moves away from as it is
RestoreNothing(tg, lf) == tg

\* a handler that restores a fixed shade instead of the saved tags
RestoreOddRow(tg, lf) ==
  IF Truthy(lf.iid) THEN [tg EXCEPT ![lf.iid] = OddRow] ELSE tg

\* if self.last_focus['iid']: tree.item(last_focus['iid'], tags=last_focus['tags'])
Restore(tg, lf) ==
  IF Truthy(lf.iid) THEN [tg EXCEPT ![lf.iid] = lf.tags] ELSE tg

\* a handler that adds the hover tag to the row's tags
SetHoverAdded(tg, iid) == [tg EXCEPT ![iid] = tg[iid] \o Hovered]

\* self.tree.item(iid, tags=['hovered_row'])
SetHover(tg, iid) == [tg EXCEPT ![iid] = Hovered]

\* a handler that takes every motion event for a move to another row
SameRowNever(iid, lf) == FALSE

\* not (iid != self.last_focus['iid'])
SameRow(iid, lf) == iid = lf.iid

\* a motion handler that also flips the direction flag and forgets the row
\* order
highlight_row_resorting(pos) ==
  LET iid == IdentifyRow(children, pos)
  IN  /\ outcome' = "highlighted"
      /\ IF ~SameRow(iid, last_focus)
         THEN LET restored == Restore(tags, last_focus)
              IN  /\ tags' = SetHover(restored, iid)
                  /\ last_focus' = [iid |-> iid, tags |-> restored[iid]]
         ELSE UNCHANGED <<tags, last_focus>>
      /\ descending' = ~descending
      /\ children' = Reverse(children)
      /\ UNCHANGED <<data, values, called_col, sort_col, sorts, widths>>

highlight_row(pos) ==
  LET iid == IdentifyRow(children, pos)
  IN  /\ outcome' = "highlighted"
      /\ IF ~SameRow(iid, last_focus)
         THEN LET restored == Restore(tags, last_focus)
              IN  /\ tags' = SetHover(restored, iid)
                  /\ last_focus' = [iid |-> iid, tags |-> restored[iid]]
         ELSE UNCHANGED <<tags, last_focus>>
      /\ UNCHANGED <<data, values, children, descending, called_col, sort_col,
                     sorts, widths>>

(* --------------------------- specification ---------------------------- *)

Next ==
  \/ \E col \in Cols : sort_cols(col)
  \/ \E pos \in 0..MaxRows : highlight_row(pos)

Spec == Init /\ [][Next]_vars

TypeOK ==
  /\ data \in Tables
  /\ Len(children) = Len(data)
  /\ descending \in BOOLEAN
  /\ last_focus.iid \in (-1)..Len(data)
  /\ outcome \in {"constructed", "sorted", "IndexError", "ValueError",
                  "highlighted"}
  /\ called_col \in {0} \cup Cols
  /\ sort_col \in {0} \cup Cols
  /\ sorts \in 0..MaxSorts

(* ------------------------ vocabulary of the claims -------------------- *)

\* the displayed rows are children[1..]; display position i (0-indexed) is
\* children[i + 1]
Positions == 0..(Len(children) - 1)

RowAt(i) == children[i + 1]

\* the shade of a display position: 'oddrow' at even positions
ShadeAt(i) == IF i % 2 = 0 THEN <<"oddrow">> ELSE <<"evenrow">>

HasHover(t) == \E k \in 1..Len(t) : t[k] = "hovered_row"

HoveredRows == { i \in Positions : HasHover(tags[RowAt(i)]) }

SortOutcomes == {"sorted", "IndexError", "ValueError"}

\* this step is a sort_cols call that ran to its end
CompletedSort == sorts' = sorts + 1

\* this step is a sort_cols call, completed or not
SortCall == outcome' \in SortOutcomes

\* the cell of the row at display position i under column col
CellAt(ch, i, col) == values[ch[i + 1]][col]

BeginsWithDigit(s) == s # <<>> /\ s[1] \in 48..57

\* text order a <= b, by code point
TextLeq(a, b) == a = b \/ StrLess(a, b)

\* the rows of ch are in text order of column col (reversed when desc)
TextOrdered(ch, col, desc) ==
  \A i \in 0..(Len(ch) - 2) :
    IF desc THEN TextLeq(CellAt(ch, i + 1, col), CellAt(ch, i, col))
    ELSE TextLeq(CellAt(ch, i, col), CellAt(ch, i + 1, col))

\* the rows of ch are in numeric order of column col (reversed when desc)
NumOrdered(ch, col, desc) ==
  \A i \in 0..(Len(ch) - 2) :
    LET a == ParseFloat(CellAt(ch, i, col))
        b == ParseFloat(CellAt(ch, i + 1, col))
    IN  /\ a.ok /\ b.ok
        /\ IF desc THEN a.val >= b.val ELSE a.val <= b.val

DistinctColumn(col) ==
  \A i, j \in DOMAIN values : values[i][col] = values[j][col] => i = j

(* ------------------------------- claims ------------------------------- *)

\* C1: in every reachable state every displayed row without the hover tag
\* carries exactly the shade tag of its display position, also after a row
\* hovered before a sort is restored by a later pointer move.
C1_ShadeFollowsPosition ==
  \A i \in Positions :
    ~HasHover(tags[RowAt(i)]) => tags[RowAt(i)] = ShadeAt(i)

\* C2: right after construction and right after every completed sort_cols
\* the row at position i carries exactly 'oddrow' (i even) or 'evenrow'
\* (i odd), adjacent rows differ in shade and no row carries the hover tag.
C2_AlternationAfterSort ==
  outcome \in {"constructed", "sorted"} =>
    /\ \A i \in Positions : tags[RowAt(i)] = ShadeAt(i)
    /\ \A i \in Positions :
         i + 1 \in Positions => tags[RowAt(i)] # tags[RowAt(i + 1)]
    /\ HoveredRows = {}

\* a completed sort of three rows while a row is the recorded focus
C2_Witness ==
  /\ outcome = "sorted"
  /\ Len(children) >= 3
  /\ last_focus.iid \in 1..Len(children)

\* C3: on a non-empty table and a column of pairwise distinct values, two
\* consecutive completed sort_cols calls on the same column give row orders
\* that are exact reverses of each other.
C3_ConsecutiveSortsReverse ==
  [][(CompletedSort /\ sort_col' = sort_col /\ called_col = sort_col
        /\ DistinctColumn(sort_col'))
       => children' = Reverse(children)]_vars

\* C4: sorting a table with zero rows does not fail, leaves zero rows and
\* toggles the direction flag.
C4_EmptySortToggles ==
  [][(SortCall /\ children = <<>>)
       => /\ outcome' = "sorted"
          /\ children' = <<>>
          /\ descending' = ~descending]_vars

\* C5: in every reachable state at most one displayed row carries the hover
\* tag.
C5_AtMostOneHovered == Cardinality(HoveredRows) <= 1

\* a row is hovered after the pointer has moved, with sorts in between
C5_Witness ==
  /\ outcome = "highlighted"
  /\ Cardinality(HoveredRows) = 1
  /\ Len(children) >= 2
  /\ sorts >= 2

\* C6: when a motion event resolves to a target other than the focused row
\* r, r's tags after the event are the tags saved when r gained focus, which
\* are the tags r held just before it became hovered; sort_cols calls made
\* while r is focused do not change what is restored.
C6_RestoreSavedTags ==
  [][/\ (last_focus'.iid # last_focus.iid /\ last_focus.iid \in 1..Len(children))
          => tags'[last_focus.iid] = last_focus.tags
     /\ (last_focus'.iid # last_focus.iid /\ last_focus'.iid \in 1..Len(children))
          => /\ last_focus'.tags = tags[last_focus'.iid]
             /\ tags'[last_focus'.iid] = <<"hovered_row">>
     /\ last_focus'.iid = last_focus.iid => last_focus'.tags = last_focus.tags
    ]_vars

\* focus has left a row that a sort moved while it was focused: the row has
\* its saved shade back, which is not the shade of its new position
C6_Witness ==
  /\ outcome = "highlighted"
  /\ sorts >= 1
  /\ \E i \in Positions :
       /\ RowAt(i) # last_focus.iid
       /\ ~HasHover(tags[RowAt(i)])
       /\ tags[RowAt(i)] # ShadeAt(i)

\* the table of the scenario: columns Name, Score; rows Bob 5, Amy 12
BobAmy == << <<sBob, s5>>, <<sAmy, s12>> >>

\* C7: the direction is one table-wide flag: the k-th completed sort_cols
\* call orders descending when k is odd and ascending when k is even,
\* whatever columns the calls name; rows [[Bob,5],[Amy,12]] sorted on Score
\* give [Amy,Bob] at odd k and [Bob,Amy] at even k, tags [odd, even].
C7_DirectionAlternates ==
  [][CompletedSort =>
       LET k    == sorts'
           col  == sort_col'
           desc == (k % 2 = 1)
       IN  /\ descending = desc
           /\ descending' = ~desc
           /\ IF LooksNumeric(CellAt(children, 0, col))
              THEN NumOrdered(children', col, desc)
              ELSE TextOrdered(children', col, desc)
           /\ (data = BobAmy /\ col = 2)
                => /\ children' = (IF desc THEN <<2, 1>> ELSE <<1, 2>>)
                   /\ tags'[children'[1]] = <<"oddrow">>
                   /\ tags'[children'[2]] = <<"evenrow">>
    ]_vars

\* the second sort of the scenario, after sorts on Score
C7_Witness ==
  /\ data = BobAmy
  /\ sorts = 2
  /\ sort_col = 2
  /\ outcome = "sorted"
  /\ children = <<1, 2>>
  /\ descending = TRUE

\* the column values "10", "2", "1"
TenTwoOne == << <<sBanana, s10>>, <<sApple, s2>>, <<sCherry, s1>> >>

\* C8: when the first displayed row's value in the column begins with an
\* ASCII digit and every value parses as a number, sort_cols orders the rows
\* by numeric value: ascending, "10","2","1" gives 1, 2, 10.
C8_NumericOrder ==
  [][(CompletedSort
        /\ BeginsWithDigit(CellAt(children, 0, sort_col'))
        /\ \A i \in Positions : ParseFloat(CellAt(children, i, sort_col')).ok)
       => /\ NumOrdered(children', sort_col', descending)
          /\ (data = TenTwoOne /\ sort_col' = 2 /\ ~descending)
               => children' = <<3, 2, 1>>
    ]_vars

\* "10","2","1" after an ascending sort on Score
C8_Witness ==
  /\ data = TenTwoOne
  /\ outcome = "sorted"
  /\ sort_col = 2
  /\ descending = TRUE
  /\ sorts = 2
  /\ children = <<3, 2, 1>>

\* C9: when the first displayed row's value in the column does not begin
\* with an ASCII digit, sort_cols orders the rows by text comparison of the
\* column values of every row.
C9_TextOrder ==
  [][(SortCall /\ children # <<>>
        /\ ~BeginsWithDigit(CellAt(children, 0, called_col')))
       => /\ outcome' = "sorted"
          /\ TextOrdered(children', called_col', descending)
    ]_vars

\* C10: after construction the table displays exactly the input rows in
\* input order: as many rows as the input and each row's cells equal to its
\* input values in column order.
C10_ConstructedRows ==
  outcome = "constructed" =>
    /\ Len(children) = Len(data)
    /\ \A i \in Positions :
         \A c \in Cols : CellAt(children, i, c) = data[i + 1][c]

\* a freshly constructed table of three rows
C10_Witness ==
  /\ outcome = "constructed"
  /\ Len(data) >= 3
  /\ Len(children) = Len(data)

\* the widths of the header and of the cells of column c
TextWidths(c) ==
  {Measure(Headers[c])} \cup { Measure(data[i][c]) : i \in 1..Len(data) }

\* C11: after construction each column's width is at least the rendered
\* width of its header and of every cell of the column and equals the
\* largest of them; while the rows are inserted a column's width never
\* decreases.
C11_ColumnWidths ==
  \A c \in Cols :
    /\ widths[c] >= Measure(Headers[c])
    /\ \A i \in 1..Len(data) : widths[c] >= Measure(data[i][c])
    /\ widths[c] \in TextWidths(c)
    /\ outcome = "constructed" =>
         \A k \in 0..(Len(data) - 1) :
           /\ InsertData(SubSeq(data, 1, k + 1)).widths[c]
                >= InsertData(SubSeq(data, 1, k)).widths[c]
           /\ k + 1 = Len(data)
                => InsertData(SubSeq(data, 1, k + 1)).widths[c] = widths[c]

\* a column that a cell has widened beyond its header, with a narrower cell
\* inserted after the widest one
C11_Witness ==
  /\ Len(data) >= 2
  /\ \E c \in Cols :
       /\ widths[c] > Measure(Headers[c])
       /\ Measure(data[Len(data)][c]) < widths[c]

\* the rows of the table, as item ids
Rows == 1..Len(children)

\* C12 as stated: whenever the hover record names a real row, that row
\* carries the hover tag and only the hover tag, also across sort_cols
\* calls.
C12_FocusedRowHovered ==
  last_focus.iid \in Rows => tags[last_focus.iid] = <<"hovered_row">>

\* C12 amended: a motion event that moves focus to a real row leaves that
\* row with the hover tag and only the hover tag, and every later event
\* other than a completed sort_cols keeps it there for as long as the row is
\* the recorded focus; a completed sort_cols replaces it by a shade tag.
C12_HoverUntilMoveOrSort ==
  [][/\ (~CompletedSort /\ last_focus'.iid \in Rows
           /\ (last_focus'.iid # last_focus.iid
                 \/ tags[last_focus.iid] = <<"hovered_row">>))
          => tags'[last_focus'.iid] = <<"hovered_row">>
     /\ (CompletedSort /\ last_focus.iid \in Rows)
          => /\ last_focus'.iid = last_focus.iid
             /\ ~HasHover(tags'[last_focus.iid])
    ]_vars

\* the focused row still carries the hover tag after a sort_cols call that
\* failed
C12_Witness ==
  /\ outcome = "ValueError"
  /\ last_focus.iid \in Rows
  /\ tags[last_focus.iid] = <<"hovered_row">>

\* C13: when the first displayed row's value in the column is the empty
\* string, sort_cols compares as text and completes without error, reordering
\* the rows and toggling the direction flag.
C13_EmptyFirstValueSorts ==
  [][(SortCall /\ children # <<>> /\ CellAt(children, 0, called_col') = <<>>)
       => /\ outcome' = "sorted"
          /\ descending' = ~descending
          /\ TextOrdered(children', called_col', descending)
    ]_vars

\* C14: when the first displayed row's value begins with an ASCII digit but
\* some row's value in the column does not parse as a number, sort_cols
\* fails with an error, does not fall back to text comparison, and leaves
\* row order, every row's tags, the direction flag and the hover record as
\* they were.
C14_ParseFailureLeavesState ==
  [][(SortCall /\ children # <<>>
        /\ BeginsWithDigit(CellAt(children, 0, called_col'))
        /\ \E i \in Positions : ~ParseFloat(CellAt(children, i, called_col')).ok)
       => /\ outcome' = "ValueError"
          /\ children' = children
          /\ tags' = tags
          /\ descending' = descending
          /\ last_focus' = last_focus
          /\ sorts' = sorts
    ]_vars

\* a sort on a column whose first value has a leading digit has failed, on a
\* table that was sorted before and has a hovered row
C14_Witness ==
  /\ outcome = "ValueError"
  /\ children # <<>>
  /\ BeginsWithDigit(CellAt(children, 0, called_col))
  /\ sorts >= 1
  /\ HoveredRows # {}

\* C15: when a motion event resolves to no row while a row r is focused, r
\* gets its saved tags back, the hover record names no row and no displayed
\* row carries the hover tag; the next motion event onto a row saves that
\* row's current tags and hovers it, and changes no other row.
C15_PointerLeavesRows ==
  [][/\ (last_focus.iid \in Rows /\ last_focus'.iid # last_focus.iid
           /\ last_focus'.iid \notin Rows)
          => /\ tags'[last_focus.iid] = last_focus.tags
             /\ ~Truthy(last_focus'.iid)
             /\ \A r \in Rows : ~HasHover(tags'[r])
     /\ (last_focus.iid = RootIid /\ last_focus'.iid \in Rows)
          => /\ last_focus'.tags = tags[last_focus'.iid]
             /\ tags'[last_focus'.iid] = <<"hovered_row">>
             /\ \A r \in Rows : r # last_focus'.iid => tags'[r] = tags[r]
    ]_vars

\* the pointer is over no row for the second time: the root item kept the
\* hover tag of the first time, and a row was focused in between
C15_Witness ==
  /\ outcome = "highlighted"
  /\ last_focus.iid = RootIid
  /\ last_focus.tags = <<"hovered_row">>
  /\ Len(children) >= 2
  /\ HoveredRows = {}

\* C16: a motion event that resolves to the row already recorded as focused
\* changes nothing: row tags, the hover record, row order and the direction
\* flag stay as they are.
C16_SameRowNoChange ==
  [][(outcome' = "highlighted" /\ last_focus'.iid = last_focus.iid)
       => /\ tags' = tags
          /\ last_focus' = last_focus
          /\ children' = children
          /\ descending' = descending
    ]_vars

\* a motion event on the focused row after a sort retagged that row: the
\* row keeps its shade tag and stays the recorded focus
C16_Witness ==
  /\ outcome = "highlighted"
  /\ last_focus.iid \in Rows
  /\ ~HasHover(tags[last_focus.iid])

\* C17: no sequence of sort_cols and highlight_row events adds, removes or
\* duplicates a row or changes a cell: the displayed sequence is always a
\* permutation of the rows inserted at construction, every row handle
\* keeping its cells.
C17_RowsArePermutation ==
  /\ Len(children) = Len(data)
  /\ \A r \in 1..Len(data) :
       Cardinality({ i \in 1..Len(children) : children[i] = r }) = 1
  /\ DOMAIN values = 1..Len(data)
  /\ \A r \in 1..Len(data) : values[r] = data[r]

\* three rows stand in another order than the input's after two sorts and a
\* pointer move
C17_Witness ==
  /\ Len(data) >= 3
  /\ sorts >= 2
  /\ outcome = "highlighted"
  /\ children # [i \in 1..Len(data) |-> i]
  /\ children # Reverse([i \in 1..Len(data) |-> i])

\* C18: whether sort_cols(col) completes does not depend on the display
\* order: once a sort on a column has completed, a later sort_cols call on
\* that column completes too.
C18_CompletesAgain ==
  [][(SortCall /\ called_col' = sort_col) => outcome' = "sorted"]_vars

\* C19: highlight_row never changes the row order or the direction flag, and
\* sort_cols never changes the hover record.
C19_DisjointEffects ==
  [][/\ outcome' = "highlighted"
          => /\ children' = children
             /\ descending' = descending
     /\ SortCall => last_focus' = last_focus
    ]_vars

\* a sort has retagged the focused row and the hover record still holds the
\* row and the shade saved before the sort
C19_Witness ==
  /\ outcome = "sorted"
  /\ last_focus.iid \in Rows
  /\ last_focus.tags = <<"oddrow">>
  /\ tags[last_focus.iid] = <<"evenrow">>
====
